---- MODULE Spec2Model ----
(***************************************************************************)
(* Model of the topology graph engine of mdfts (src/mdfts/utils/topology.py)*)
(* Segment / ArmType / FTSTopology: arm list, chain-type map, the directed  *)
(* multigraph of grafts (networkx MultiDiGraph), cycle validation, graft     *)
(* enumeration, unrolling (fully_enumerate) and bead expansion.              *)
(*                                                                         *)
(* Arm indices are 0-based as in the source: arm i is arm_types[i + 1].      *)
(***************************************************************************)
EXTENDS Integers, Sequences, FiniteSets, TLC

\* ---------------------------------------------------------------- bounds
MaxArms == 3
MaxEdges == 2
MaxChains == 1
MaxMult == 2
MaxGrafts == 2
MaxRoots == 2

\* ------------------------------------------------------- generic helpers
RECURSIVE Flatten(_)
Flatten(ss) == IF ss = <<>> THEN <<>> ELSE Head(ss) \o Flatten(Tail(ss))

RECURSIVE SumSeq(_)
SumSeq(s) == IF s = <<>> THEN 0 ELSE Head(s) + SumSeq(Tail(s))

Repeat(x, n) == [i \in 1..n |-> x]

Range(s) == {s[i] : i \in 1..Len(s)}

\* ------------------------------------------------------------- Segment
\* A block definition handed to Segment.update: a bare species name, or a
\* (name, num) pair.
Bare(sp) == [sp |-> sp, n |-> 1, bare |-> TRUE]
Pair(sp, n) == [sp |-> sp, n |-> n, bare |-> FALSE]

\* Segment.add_block: one stored block, BlockSpecies[i] / NPerBlock[i].
add_block(species_name, num) == [sp |-> species_name, n |-> num]

\* Bead names are str or int (add_block takes both).  The int bead names
\* of the model are the names of IntSpecies; every other name is a str.
IntSpecies == {"#1"}
isinstance_str(x) == x \notin IntSpecies

\* Segment.update on an iterable of block definitions: clear, then one
\* add_block per definition (a bare name counts 1).  A definition that is
\* neither a str nor a list/tuple -- a bare int bead name -- matches no
\* branch of the loop and adds nothing.
update(segdef) ==
    LET used == SelectSeq(segdef, LAMBDA b : ~b.bare \/ isinstance_str(b.sp))
    IN  [i \in 1..Len(used) |->
            IF used[i].bare THEN add_block(used[i].sp, 1)
                            ELSE add_block(used[i].sp, used[i].n)]

\* Segment.n_beads
n_beads(blocks) == SumSeq([i \in 1..Len(blocks) |-> blocks[i].n])

\* Segment.sequence: the verbose bead-name tuple.
sequence(blocks) ==
    Flatten([i \in 1..Len(blocks) |-> Repeat(blocks[i].sp, blocks[i].n)])

\* The run-length loop shared by sequence_compact and sequence_compactest:
\* scans the verbose sequence, closing a block whenever the species changes.
RECURSIVE CompactScan(_, _, _, _)
CompactScan(rest, current, num, acc) ==
    IF rest = <<>> THEN Append(acc, add_block(current, num))
    ELSE IF Head(rest) = current
         THEN CompactScan(Tail(rest), current, num + 1, acc)
         ELSE CompactScan(Tail(rest), Head(rest), 1,
                          Append(acc, add_block(current, num)))

\* Segment.sequence_compact; full_seq[0] raises IndexError on an empty
\* sequence, modelled by ok = FALSE.
sequence_compact(blocks) ==
    LET full_seq == sequence(blocks)
    IN  IF full_seq = <<>> THEN [ok |-> FALSE, val |-> <<>>]
        ELSE [ok |-> TRUE,
              val |-> CompactScan(Tail(full_seq), Head(full_seq), 1, <<>>)]

\* Segment.sequence_compactest: as sequence_compact, a block of one bead is
\* written as the bare species name.
sequence_compactest(blocks) ==
    LET c == sequence_compact(blocks)
    IN  IF ~c.ok THEN c
        ELSE [ok |-> TRUE,
              val |-> [i \in 1..Len(c.val) |->
                          IF c.val[i].n > 1 THEN Pair(c.val[i].sp, c.val[i].n)
                                            ELSE Bare(c.val[i].sp)]]

\* The statistics setter: a known name, whatever its case, is stored in its
\* canonical spelling; any other string stores nothing, and the attribute
\* stays unset (reading it raises KeyError).
Unset == "<unset>"
set_statistics(val) ==
    IF val \in {"DGC", "dgc"} THEN "DGC"
    ELSE IF val \in {"FJC", "fjc"} THEN "FJC"
    ELSE IF val \in {"Continuous", "continuous"} THEN "Continuous"
    ELSE Unset

\* Segment.__init__(segdef, stat): a Segment object on its own, with its
\* stored blocks and its statistics.
Segment(segdef, stat) ==
    [blocks |-> update(segdef), statistics |-> set_statistics(stat)]

\* A verbose sequence and a compact sequence as the definitions update reads.
VerboseDef(seq) == [i \in 1..Len(seq) |-> Bare(seq[i])]
CompactDef(blocks) == [i \in 1..Len(blocks) |-> Pair(blocks[i].sp, blocks[i].n)]

\* Segment.to_compact: seq = self.sequence_compact(); self.update(seq).
\* Returns ok (FALSE when sequence_compact raises) and the Segment afterwards.
to_compact(s) ==
    LET seq == sequence_compact(s.blocks)
    IN  IF ~seq.ok THEN [ok |-> FALSE, val |-> s]
        ELSE [ok |-> TRUE, val |-> [s EXCEPT !.blocks = update(CompactDef(seq.val))]]

\* Segment.__eq__: False on different sequences, False on different
\* statistics, and no return statement after that: the call returns None.
\* Reading an unset statistics raises KeyError.
PyFalse == "False"
PyTrue == "True"
PyNone == "None"
PyKeyError == "KeyError"
Segment__eq__(self, other) ==
    IF sequence(self.blocks) # sequence(other.blocks) THEN PyFalse
    ELSE IF self.statistics = Unset \/ other.statistics = Unset THEN PyKeyError
    ELSE IF self.statistics # other.statistics THEN PyFalse
    ELSE PyNone

\* ------------------------------------------- networkx MultiDiGraph (self.g)
\* The graph keeps its nodes in insertion order and hands out its edges
\* (g.edges(data=True)) grouped by source node in node order, then by target
\* in the order the targets were first connected, then by edge key.  The
\* model stores the edge list in exactly that iteration order.
Max(S) == CHOOSE x \in S : \A y \in S : y <= x

NodePos(nodes, n) == CHOOSE i \in 1..Len(nodes) : nodes[i] = n

InsertAfter(s, i, x) == SubSeq(s, 1, i) \o <<x>> \o SubSeq(s, i + 1, Len(s))

\* MultiDiGraph.add_node: a known node keeps its place.
add_node(nodes, n) == IF n \in Range(nodes) THEN nodes ELSE Append(nodes, n)

\* MultiDiGraph.add_edge(u, v, **attr): adds the endpoints when missing and
\* a new parallel edge under the next key of the pair (u, v).
add_edge(g, u, v, attr) ==
    LET nodes1 == add_node(add_node(g.nodes, u), v)
        e == [u |-> u, v |-> v, graft_at |-> attr.graft_at,
              graft_from |-> attr.graft_from,
              multiplicity |-> attr.multiplicity]
        idx == 1..Len(g.edges)
        same == {i \in idx : g.edges[i].u = u /\ g.edges[i].v = v}
        src == {i \in idx : g.edges[i].u = u}
        before == {i \in idx :
                     NodePos(nodes1, g.edges[i].u) < NodePos(nodes1, u)}
        k == IF same # {} THEN Max(same)
             ELSE IF src # {} THEN Max(src)
             ELSE Cardinality(before)
    IN  [nodes |-> nodes1, edges |-> InsertAfter(g.edges, k, e)]

\* (u, v) in g.edges()
has_edge(g, u, v) == \E i \in 1..Len(g.edges) : g.edges[i].u = u /\ g.edges[i].v = v

\* [(e1, d) for e0, e1, d in self.g.edges(data=True) if e0 == root]
out_edges(g, root) == SelectSeq(g.edges, LAMBDA e : e.u = root)

\* ----------------------------------------------------------- FTSTopology
\* FTSTopology.__init__
NewTopology ==
    [arm_types |-> <<>>, segments |-> <<>>, chain_types |-> <<>>,
     g |-> [nodes |-> <<>>, edges |-> <<>>]]

\* FTSTopology.add_segment
add_segment(t, seg_def) == [t EXCEPT !.segments = Append(@, update(seg_def))]

\* An arm definition handed to add_armtype: a fresh block list, or the
\* integer index of a stored segment.
FreshDef(d) == [kind |-> "def", def |-> d, ind |-> 0]
SegIndex(i) == [kind |-> "int", def |-> <<>>, ind |-> i]

\* FTSTopology.add_armtype.  Returns ok (FALSE when the call raises), the
\* topology afterwards and the index of the new arm.
add_armtype(t, arm_def) ==
    LET n == Len(t.arm_types)
        withArm(tt, arm) ==
            [tt EXCEPT !.arm_types = Append(@, arm),
                       !.g = [@ EXCEPT !.nodes = add_node(@, n)]]
    IN  IF arm_def.kind = "int"
        THEN IF arm_def.ind >= Len(t.segments)
             THEN [ok |-> FALSE, t |-> t, ind |-> n]
             ELSE LET c == sequence_compact(t.segments[arm_def.ind + 1])
                  IN  IF ~c.ok THEN [ok |-> FALSE, t |-> t, ind |-> n]
                      ELSE [ok |-> TRUE, t |-> withArm(t, c.val), ind |-> n]
        ELSE LET arm == update(arm_def.def)
                 seq == sequence(arm)
                 no_match == \A i \in 1..Len(t.segments) :
                                 sequence(t.segments[i]) # seq
                 t1 == IF no_match
                       THEN add_segment(t, [i \in 1..Len(seq) |-> Bare(seq[i])])
                       ELSE t
             IN  [ok |-> TRUE, t |-> withArm(t1, arm), ind |-> n]

\* OrderedDict item assignment: a known key keeps its place.
dict_set(d, k, v) ==
    IF \E i \in 1..Len(d) : d[i].name = k
    THEN [i \in 1..Len(d) |-> IF d[i].name = k THEN [name |-> k, ind |-> v] ELSE d[i]]
    ELSE Append(d, [name |-> k, ind |-> v])

dict_has(d, k) == \E i \in 1..Len(d) : d[i].name = k
dict_get(d, k) == (CHOOSE i \in 1..Len(d) : d[i].name = k)

\* "Chain{}".format(n)
ChainNames == <<"Chain1", "Chain2", "Chain3", "Chain4", "Chain5", "Chain6">>
NoName == "None"

\* add_chaintype bookmarking an arm with the same beads when there is one.
add_chaintype_reusing(t, chain_def, name) ==
    LET same == {i \in 1..Len(t.arm_types) :
                    sequence(t.arm_types[i]) = sequence(update(chain_def.def))}
        nm == IF name = NoName THEN ChainNames[Len(t.chain_types) + 1] ELSE name
    IN  IF same = {} THEN add_armtype(t, chain_def)
        ELSE [ok |-> TRUE,
              t |-> [t EXCEPT !.chain_types = dict_set(@, nm, Max(same) - 1)],
              ind |-> Max(same) - 1]

\* FTSTopology.add_chaintype
add_chaintype(t, chain_def, name) ==
    LET r == add_armtype(t, chain_def)
        nm == IF name = NoName THEN ChainNames[Len(t.chain_types) + 1] ELSE name
    IN  IF ~r.ok THEN r
        ELSE [r EXCEPT !.t = [@ EXCEPT !.chain_types = dict_set(@, nm, r.ind)]]

\* validate_list(val, int): every entry is an int, of either sign.
validate_list(val) == \A i \in 1..Len(val) : val[i] \in Int

\* add_graft checking the attach end only after the edge is in the graph.
add_graft_late_check(t, base_arm, graft_arm, base_graft_points, graft_graft_point, multiplicity) ==
    [ok |-> validate_list(base_graft_points) /\ graft_graft_point \in {0, -1},
     t |-> [t EXCEPT !.g = add_edge(@, base_arm, graft_arm,
                             [graft_at |-> base_graft_points,
                              graft_from |-> graft_graft_point,
                              multiplicity |-> multiplicity])],
     warned |-> has_edge(t.g, base_arm, graft_arm)]

\* add_graft refusing a pair that already has an edge.
add_graft_once(t, base_arm, graft_arm, base_graft_points, graft_graft_point, multiplicity) ==
    IF graft_graft_point \notin {0, -1} \/ has_edge(t.g, base_arm, graft_arm)
    THEN [ok |-> FALSE, t |-> t, warned |-> has_edge(t.g, base_arm, graft_arm)]
    ELSE [ok |-> TRUE,
          t |-> [t EXCEPT !.g = add_edge(@, base_arm, graft_arm,
                                  [graft_at |-> base_graft_points,
                                   graft_from |-> graft_graft_point,
                                   multiplicity |-> multiplicity])],
          warned |-> FALSE]

\* add_graft refusing an edge that closes a cycle.
add_graft_acyclic(t, base_arm, graft_arm, base_graft_points, graft_graft_point, multiplicity) ==
    LET g1 == add_edge(t.g, base_arm, graft_arm,
                       [graft_at |-> base_graft_points,
                        graft_from |-> graft_graft_point,
                        multiplicity |-> multiplicity])
        closes == \E i \in 1..Len(g1.edges) :
                     \E j \in 1..Len(g1.edges) :
                        \/ g1.edges[i].u = g1.edges[i].v
                        \/ /\ g1.edges[i].u = g1.edges[j].v
                           /\ g1.edges[i].v = g1.edges[j].u
    IN  IF graft_graft_point \notin {0, -1} \/ closes
        THEN [ok |-> FALSE, t |-> t, warned |-> FALSE]
        ELSE [ok |-> TRUE, t |-> [t EXCEPT !.g = g1],
              warned |-> has_edge(t.g, base_arm, graft_arm)]

\* FTSTopology.add_graft with the arms given by index.  Returns ok (FALSE
\* when the call raises), the topology afterwards and whether the
\* duplicate-edge warning was issued.
add_graft(t, base_arm, graft_arm, base_graft_points, graft_graft_point, multiplicity) ==
    IF ~validate_list(base_graft_points) \/ graft_graft_point \notin {0, -1}
    THEN [ok |-> FALSE, t |-> t, warned |-> FALSE]
    ELSE LET graft_attr == [graft_at |-> base_graft_points,
                            graft_from |-> graft_graft_point,
                            multiplicity |-> multiplicity]
             u == base_arm
             v == graft_arm
         IN  [ok |-> TRUE,
              t |-> [t EXCEPT !.g = add_edge(@, u, v, graft_attr)],
              warned |-> has_edge(t.g, u, v)]

\* A result of a call that raised.
Raised == [ok |-> FALSE, val |-> <<>>]
Returned(v) == [ok |-> TRUE, val |-> v]

\* A cycle search that follows only the edges grafted from bead 0.
RECURSIVE DfsFromZeroOnly(_, _, _)
DfsFromZeroOnly(g, n, active) ==
    \E i \in 1..Len(g.edges) :
        /\ g.edges[i].u = n
        /\ g.edges[i].graft_from = 0
        /\ \/ g.edges[i].v \in active
           \/ DfsFromZeroOnly(g, g.edges[i].v, active \cup {g.edges[i].v})

\* nx.find_cycle as isvalid uses it: a depth-first search from every node
\* that keeps the set of nodes on the active path and reports a cycle at
\* the first edge whose head is on that path.
RECURSIVE DfsFindsCycle(_, _, _)
DfsFindsCycle(g, n, active) ==
    \E i \in 1..Len(g.edges) :
        /\ g.edges[i].u = n
        /\ \/ g.edges[i].v \in active
           \/ DfsFindsCycle(g, g.edges[i].v, active \cup {g.edges[i].v})

find_cycle(g) == \E start \in Range(g.nodes) : DfsFindsCycle(g, start, {start})

\* FTSTopology.isvalid
isvalid(t) == ~find_cycle(t.g)

\* An attach-end test that lets both ends of the graft arm through.
grafted_from_an_end(d) == d.graft_from \in {0, -1}

\* The test both traversals make on every edge they come to, before they
\* follow it: 'if d["graft_from"] != 0: raise ValueError'.
grafted_from_zero(d) == d.graft_from = 0

\* The graft points of an edge enumerated once, whatever its multiplicity.
enumerated_points_once(d) == d.graft_at

\* One repetition too many (range(multiplicity + 1)).
enumerated_points_extra(d) ==
    Flatten([ii \in 1..(d.multiplicity + 1) |-> d.graft_at])

\* The two loops of get_grafts over one edge, "for ii in
\* range(d['multiplicity']): for graft_point in d['graft_at']": the graft
\* points in the order the loops visit them.
enumerated_points(d) ==
    Flatten([ii \in 1..d.multiplicity |-> d.graft_at])

\* FTSTopology.get_grafts.  One entry per (repetition, graft point) of every
\* edge leaving root: the graft arm's sequence_compactest, the one graft
\* point, and (entry[2:] in the source) the entries of get_grafts(graft arm).
\* A call that reaches an arm already on its own call stack never returns
\* normally (RecursionError).
RECURSIVE get_grafts_on(_, _, _)
get_grafts_on(t, root, stack) ==
    IF root \in stack THEN Raised
    ELSE
    LET grafts == out_edges(t.g, root)
        of_edge(d) ==
            IF ~grafted_from_zero(d) THEN Raised
            ELSE IF enumerated_points(d) = <<>> THEN Returned(<<>>)
            ELSE IF d.v >= Len(t.arm_types) THEN Raised
            ELSE LET c == sequence_compactest(t.arm_types[d.v + 1])
                     sub == get_grafts_on(t, d.v, stack \cup {root})
                 IN  IF ~c.ok \/ ~sub.ok THEN Raised
                     ELSE Returned(
                            [j \in 1..Len(enumerated_points(d)) |->
                                [arm |-> FreshDef(c.val),
                                 at |-> <<enumerated_points(d)[j]>>,
                                 sub |-> sub.val]])
        res == [i \in 1..Len(grafts) |-> of_edge(grafts[i])]
    IN  IF \E i \in 1..Len(res) : ~res[i].ok THEN Raised
        ELSE Returned(Flatten([i \in 1..Len(res) |-> res[i].val]))

get_grafts(t, root) == get_grafts_on(t, root, {})

\* FTSTopology.get_armtype_index.  arm_def is an index (kind "int"), an
\* ArmType instance of this topology (kind "arm") or a fresh definition
\* (kind "def").
get_armtype_index(t, arm_def, add_if_not_found) ==
    IF arm_def.kind = "int"
    THEN IF arm_def.ind > Len(t.arm_types) - 1
         THEN [ok |-> FALSE, t |-> t, ind |-> 0]
         ELSE [ok |-> TRUE, t |-> t, ind |-> arm_def.ind]
    ELSE IF arm_def.kind = "arm"
    THEN [ok |-> TRUE, t |-> t, ind |-> arm_def.ind]
    ELSE IF add_if_not_found
         THEN add_armtype(t, arm_def)
         ELSE [ok |-> FALSE, t |-> t, ind |-> 0]

\* A branch that reuses an arm with the same bead sequence when there is one.
reuse_graft_arm(t, proposed_graft) ==
    LET seq == sequence(update(proposed_graft.def))
        same == {i \in 1..Len(t.arm_types) : sequence(t.arm_types[i]) = seq}
    IN  IF same = {} THEN add_armtype(t, proposed_graft)
        ELSE [ok |-> TRUE, t |-> t, ind |-> Max(same) - 1]

\* add_path, mode 1: "v = self.add_armtype(proposed_graft)", a new arm for
\* every branch.
create_graft_arm(t, proposed_graft) == add_armtype(t, proposed_graft)

\* FTSTopology.add_path.  branch_defs is a sequence of entries
\* [arm, at, sub] (entry[0], entry[1], entry[2:]).  The topology returned
\* with ok = FALSE is the one the call leaves behind when it raises.
RECURSIVE add_path(_, _, _, _, _)
RECURSIVE add_branches(_, _, _, _)
RECURSIVE add_subgrafts(_, _, _, _)

add_subgrafts(t, v, sub_grafts, mode) ==
    IF sub_grafts = <<>> THEN [ok |-> TRUE, t |-> t, ind |-> v]
    ELSE LET r == add_path(t, [kind |-> IF mode = 1 THEN "arm" ELSE "int",
                               def |-> <<>>, ind |-> v],
                           <<Head(sub_grafts)>>, mode, NoName)
         IN  IF ~r.ok THEN r ELSE add_subgrafts(r.t, v, Tail(sub_grafts), mode)

add_branches(t, u, branch_defs, mode) ==
    IF branch_defs = <<>> THEN [ok |-> TRUE, t |-> t, ind |-> u]
    ELSE LET branch_def == Head(branch_defs)
             rv == IF mode = 0
                   THEN get_armtype_index(t, branch_def.arm, FALSE)
                   ELSE create_graft_arm(t, branch_def.arm)
         IN  IF ~rv.ok THEN [ok |-> FALSE, t |-> rv.t, ind |-> u]
             ELSE LET rg == add_graft(rv.t, u, rv.ind, branch_def.at, 0, 1)
                      rs == add_subgrafts(rg.t, rv.ind, branch_def.sub, mode)
                  IN  IF ~rg.ok THEN [ok |-> FALSE, t |-> rg.t, ind |-> u]
                      ELSE IF ~rs.ok THEN [ok |-> FALSE, t |-> rs.t, ind |-> u]
                      ELSE add_branches(rs.t, u, Tail(branch_defs), mode)

add_path(t, root, branch_defs, mode, as_chain_name) ==
    IF mode \notin {0, 1} THEN [ok |-> FALSE, t |-> t, ind |-> 0]
    ELSE LET ru == get_armtype_index(t, root, mode = 1)
             t1 == IF as_chain_name = NoName THEN ru.t
                   ELSE [ru.t EXCEPT !.chain_types = dict_set(@, as_chain_name, ru.ind)]
         IN  IF ~ru.ok THEN ru
             ELSE add_branches(t1, ru.ind, branch_defs, mode)

\* FTSTopology.fully_enumerate: a fresh topology, one add_path(mode=1) per
\* chain type, fed with the root's sequence_compactest and get_grafts(root).
RECURSIVE enumerate_chains(_, _, _)
enumerate_chains(t, chains, ft) ==
    IF chains = <<>> THEN Returned(ft)
    \* self.arm_types[arm_index]: IndexError beyond the arm list
    ELSE IF Head(chains).ind >= Len(t.arm_types) THEN Raised
    ELSE LET arm_index == Head(chains).ind
             graft_def == get_grafts(t, arm_index)
             c == sequence_compactest(t.arm_types[arm_index + 1])
             r == add_path(ft, FreshDef(c.val),
                           graft_def.val, 1, NoName)
         IN  IF ~graft_def.ok \/ ~c.ok THEN Raised
             ELSE IF ~r.ok THEN Raised
             ELSE enumerate_chains(t, Tail(chains),
                    [r.t EXCEPT !.chain_types = dict_set(@, Head(chains).name, r.ind)])

fully_enumerate(t) == enumerate_chains(t, t.chain_types, NewTopology)

\* FTSTopology.expand_graft_to_beads.  graft_index = -1 starts a fresh
\* chain; otherwise it is the global index of the parent's attachment bead.
\* bead_inds[graft_point] follows Python indexing: a point in -n..-1 counts
\* from the end of the arm, a point outside -n..n-1 raises IndexError.
\* Graft points counted from 1.
attach_bead_from_one(start_ind, n, graft_point) ==
    IF graft_point >= n \/ graft_point < -n THEN [ok |-> FALSE, bead |-> 0]
    ELSE [ok |-> TRUE,
          bead |-> IF graft_point >= 0 THEN start_ind + graft_point - 1
                   ELSE start_ind + n + graft_point]

\* bead_inds[graft_point] for bead_inds = start_ind .. start_ind + n - 1.
attach_bead(start_ind, n, graft_point) ==
    IF graft_point >= n \/ graft_point < -n THEN [ok |-> FALSE, bead |-> 0]
    ELSE [ok |-> TRUE,
          bead |-> IF graft_point >= 0 THEN start_ind + graft_point
                   ELSE start_ind + n + graft_point]

\* A connector test that takes attachment bead 0 for "not grafted".
connector_edges_positive(graft_index, start_ind) ==
    IF graft_index <= 0 THEN <<>> ELSE <<<<graft_index, start_ind>>>>

\* The bond to the parent's attachment bead: none for a backbone.
connector_edges(graft_index, start_ind) ==
    IF graft_index <= -1 THEN <<>> ELSE <<<<graft_index, start_ind>>>>

\* (ii - 1, ii) for ii in bead_inds[1:]
backbone_edges(start_ind, n) ==
    [k \in 1..(IF n > 0 THEN n - 1 ELSE 0) |-> <<start_ind + k - 1, start_ind + k>>]

\* The child calls of an edge made once per graft point, whatever its
\* multiplicity.
expanded_points_once(d) == d.graft_at

\* The two loops of expand_graft_to_beads over one edge: the graft points in
\* the order the child calls are made.
expanded_points(d) ==
    Flatten([ii \in 1..d.multiplicity |-> d.graft_at])

RECURSIVE expand_on(_, _, _, _, _, _)
RECURSIVE expand_children(_, _, _, _, _, _, _)

expand_children(t, calls, start_ind, n, node_list, edge_list, stack) ==
    IF calls = <<>> THEN [ok |-> TRUE, nodes |-> node_list, edges |-> edge_list]
    ELSE LET e == Head(calls).e
             b == attach_bead(start_ind, n, Head(calls).graft_point)
         IN  IF ~b.ok
             THEN [ok |-> FALSE, nodes |-> node_list, edges |-> edge_list]
             ELSE LET r == expand_on(t, e, b.bead, node_list, edge_list, stack)
                  IN  IF ~r.ok THEN r
                      ELSE expand_children(t, Tail(calls), start_ind, n,
                                           r.nodes, r.edges, stack)

expand_on(t, arm_ind, graft_index, node_list0, edge_list0, stack) ==
    LET node_list == IF graft_index = -1 THEN <<>> ELSE node_list0
        edge_list == IF graft_index = -1 THEN <<>> ELSE edge_list0
        failed == [ok |-> FALSE, nodes |-> node_list, edges |-> edge_list]
    IN  IF arm_ind \in stack \/ arm_ind >= Len(t.arm_types) THEN failed
        ELSE
        LET bead_names == sequence(t.arm_types[arm_ind + 1])
            start_ind == Len(node_list)
            n == Len(bead_names)
            connector == connector_edges(graft_index, start_ind)
            backbone == backbone_edges(start_ind, n)
            grafts == out_edges(t.g, arm_ind)
            calls == Flatten(
                [i \in 1..Len(grafts) |->
                    [j \in 1..Len(expanded_points(grafts[i])) |->
                        [e |-> grafts[i].v,
                         graft_point |-> expanded_points(grafts[i])[j]]]])
            \* an edge not grafted from bead 0 raises when the loop reaches it
            bad == {i \in 1..Len(grafts) : ~grafted_from_zero(grafts[i])}
        IN  IF graft_index > -1 /\ n = 0 THEN failed
            ELSE IF bad # {} THEN failed
            ELSE expand_children(t, calls, start_ind, n,
                                 node_list \o bead_names,
                                 edge_list \o connector \o backbone,
                                 stack \cup {arm_ind})

expand_graft_to_beads(t, arm_ind) == expand_on(t, arm_ind, -1, <<>>, <<>>, {})

\* FTSTopology.expand_to_beads: chain name -> (node_list, edge_list), every
\* chain indexed from 0.
expand_to_beads(t) ==
    LET chains == [i \in 1..Len(t.chain_types) |->
                      expand_graft_to_beads(t, t.chain_types[i].ind)]
    IN  IF \E i \in 1..Len(chains) : ~chains[i].ok THEN Raised
        ELSE Returned([i \in 1..Len(chains) |->
                          [name |-> t.chain_types[i].name,
                           nodes |-> chains[i].nodes,
                           edges |-> chains[i].edges]])

\* ------------------------------------------------ Serializable interface
\* Segment.to_dict (statistics is always the constructor default, "DGC").
segment_to_dict(blocks) ==
    [statistics |-> "DGC",
     block_species |-> [i \in 1..Len(blocks) |-> blocks[i].sp],
     n_per_block |-> [i \in 1..Len(blocks) |-> blocks[i].n]]

\* Segment.init_from_dict: an empty Segment, then the three setters.
segment_from_dict(d) ==
    [i \in 1..Len(d.block_species) |-> add_block(d.block_species[i], d.n_per_block[i])]

\* FTSTopology.custom_get("g"): the node list and the (u, v, data) edge list.
custom_get_g(t) ==
    [nodes |-> t.g.nodes,
     edges |-> [i \in 1..Len(t.g.edges) |->
                  [u |-> t.g.edges[i].u, v |-> t.g.edges[i].v,
                   data |-> [graft_at |-> t.g.edges[i].graft_at,
                             graft_from |-> t.g.edges[i].graft_from,
                             multiplicity |-> t.g.edges[i].multiplicity]]]]

\* FTSTopology.custom_set("g"): a new MultiDiGraph, add_nodes_from, then
\* add_edges_from in the order of the edge list.
RECURSIVE add_nodes_from(_, _)
add_nodes_from(nodes, ns) ==
    IF ns = <<>> THEN nodes ELSE add_nodes_from(add_node(nodes, Head(ns)), Tail(ns))

RECURSIVE add_edges_from(_, _)
add_edges_from(g, es) ==
    IF es = <<>> THEN g
    ELSE add_edges_from(add_edge(g, Head(es).u, Head(es).v, Head(es).data), Tail(es))

\* A graph rebuilt as a plain DiGraph: one edge per (u, v) pair, the last
\* attributes winning.
RECURSIVE add_edges_simple(_, _)
add_edges_simple(g, es) ==
    IF es = <<>> THEN g
    ELSE LET e == Head(es)
             g1 == IF has_edge(g, e.u, e.v)
                   THEN [g EXCEPT !.edges =
                           [i \in 1..Len(@) |->
                              IF @[i].u = e.u /\ @[i].v = e.v
                              THEN [u |-> e.u, v |-> e.v,
                                    graft_at |-> e.data.graft_at,
                                    graft_from |-> e.data.graft_from,
                                    multiplicity |-> e.data.multiplicity]
                              ELSE @[i]]]
                   ELSE add_edge(g, e.u, e.v, e.data)
         IN  add_edges_simple(g1, Tail(es))

custom_set_g_digraph(val) ==
    add_edges_simple([nodes |-> add_nodes_from(<<>>, val.nodes), edges |-> <<>>],
                     val.edges)

custom_set_g(val) ==
    add_edges_from([nodes |-> add_nodes_from(<<>>, val.nodes), edges |-> <<>>],
                   val.edges)

\* Serializable.to_dict over _serial_vars of FTSTopology.
to_dict(t) ==
    [chain_types |-> t.chain_types,
     arm_types |-> [i \in 1..Len(t.arm_types) |-> segment_to_dict(t.arm_types[i])],
     segments |-> [i \in 1..Len(t.segments) |-> segment_to_dict(t.segments[i])],
     g |-> custom_get_g(t)]

\* FTSTopology.init_from_dict: a fresh FTSTopology, then from_dict.
init_from_dict(d) ==
    [chain_types |-> d.chain_types,
     arm_types |-> [i \in 1..Len(d.arm_types) |-> segment_from_dict(d.arm_types[i])],
     segments |-> [i \in 1..Len(d.segments) |-> segment_from_dict(d.segments[i])],
     g |-> custom_set_g(d.g)]

\* ------------------------------------------------------- Python objects
\* Objects live in a store and are referred to by their address (id()): two
\* names hold the same object exactly when they hold the same address.  A
\* topology object is the record of the addresses of its four containers;
\* its arm list holds the addresses of its ArmType objects.
NewObj(cls, val) == [cls |-> cls, val |-> val]

\* FTSTopology.__init__: four new containers.
FTSTopology__init__(objs) ==
    [objs |-> objs \o <<NewObj("SerializableTypedList", <<>>),
                        NewObj("SerializableTypedList", <<>>),
                        NewObj("OrderedDict", <<>>),
                        NewObj("MultiDiGraph", [nodes |-> <<>>, edges |-> <<>>])>>,
     self |-> [segments |-> Len(objs) + 1, arm_types |-> Len(objs) + 2,
               chain_types |-> Len(objs) + 3, g |-> Len(objs) + 4]]

\* The state after FT = FTSTopology().
NewHeap ==
    LET r == FTSTopology__init__(<<>>)
    IN  [objs |-> r.objs, G |-> r.self, H |-> <<>>]

\* The topology a topology object stands for: its containers read through
\* their addresses.
view(objs, self) ==
    [arm_types |-> [i \in 1..Len(objs[self.arm_types].val) |->
                       objs[objs[self.arm_types].val[i]].val],
     segments |-> objs[self.segments].val,
     chain_types |-> objs[self.chain_types].val,
     g |-> objs[self.g].val]

\* The store after a method has taken self to the topology t: the methods
\* work in place (self.arm_types.append, self.segments.append,
\* self.chain_types[name] = ..., self.g.add_node / add_edge), and every arm
\* they append is a new ArmType object.
mutate(objs, self, t) ==
    LET old_arms == objs[self.arm_types].val
        added == IF Len(t.arm_types) > Len(old_arms)
                 THEN Len(t.arm_types) - Len(old_arms) ELSE 0
        objs1 == objs \o [k \in 1..added |->
                             NewObj("ArmType", t.arm_types[Len(old_arms) + k])]
        new_refs == [k \in 1..added |-> Len(objs) + k]
    IN  [a \in 1..Len(objs1) |->
            IF a = self.arm_types
            THEN NewObj("SerializableTypedList", old_arms \o new_refs)
            ELSE IF a = self.segments
            THEN NewObj("SerializableTypedList", t.segments)
            ELSE IF a = self.chain_types THEN NewObj("OrderedDict", t.chain_types)
            ELSE IF a = self.g THEN NewObj("MultiDiGraph", t.g)
            ELSE objs1[a]]

\* Arms compared by their bead sequence.
same_sequence(objs, a, b) == sequence(objs[a].val) = sequence(objs[b].val)

\* ArmType.__eq__: id(self) == id(other)
ArmType__eq__(objs, a, b) == a = b

\* self.arm_types.index(arm): the first position whose element equals arm,
\* ValueError when there is none.
arm_types_index(objs, self, arm) ==
    LET list == objs[self.arm_types].val
        found == {i \in 1..Len(list) : ArmType__eq__(objs, list[i], arm)}
    IN  IF found = {} THEN [ok |-> FALSE, ind |-> 0]
        ELSE [ok |-> TRUE, ind |-> (CHOOSE i \in found : \A j \in found : i <= j) - 1]

\* encode(thing): a standard type (a dict, a list) is handed out as it is,
\* the same object.
encode(thing) == thing

\* to_dict() of a topology followed by init_from_dict(d) of a new one.  The
\* two lists are filled in place with new objects made from their dicts,
\* the graph is a new MultiDiGraph, and chain_types, not a Serializable, is
\* set by setattr(self, k, v) to the object custom_get handed out.
heap_init_from_dict(objs, source) ==
    LET d == [chain_types |-> encode(source.chain_types),
              rest |-> to_dict(view(objs, source))]
        new == FTSTopology__init__(objs)
        filled == [init_from_dict(d.rest) EXCEPT
                      !.chain_types = new.objs[new.self.chain_types].val]
    IN  [objs |-> mutate(new.objs, new.self, filled),
         self |-> [new.self EXCEPT !.chain_types = d.chain_types]]

\* "ft = self": enumeration into the topology it reads.
enumerate_in_place(objs, self) == [objs |-> objs, self |-> self]

\* fully_enumerate: "ft = FTSTopology()", the topology the paths are added
\* to.
enumerate_target(objs, self) == FTSTopology__init__(objs)

\* ------------------------------------------------------- state machine
\* ft: the FTSTopology under construction.  ret: the last call, its
\* arguments where a claim needs them, and what it returned.  seg: the
\* Segment of the segment machine.  stack: the call stack of the traversal
\* machine.  heap: the object store of the object machine with the
\* topology objects G (the one ft shows) and H (one rebuilt from G's dict,
\* when there is one).
VARIABLES ft, ret, seg, stack, heap
vars == <<ft, ret, seg, stack, heap>>

\* Inputs of the calls.
ArmDefs == {FreshDef(<<Pair("A", 2)>>),
            FreshDef(<<Bare("B"), Bare("A"), Bare("A")>>)}
NameArgs == {NoName, "Ch"}
ArmIndices(t) == 0..(Len(t.arm_types) - 1)
\* (base, graft) pairs of existing arms; the query machine grafts no arm
\* onto itself
ArmPairs(t) == ArmIndices(t) \X ArmIndices(t)
OtherArmPairs(t) == {p \in ArmPairs(t) : p[1] # p[2]}
GraftArg(at, from, m) == [graft_at |-> at, graft_from |-> from, multiplicity |-> m]
\* grafts of the construction machine: both attach ends
GraftArgs == {GraftArg(<<0>>, 0, 1), GraftArg(<<1, 0>>, 0, MaxMult),
              GraftArg(<<0>>, -1, 1), GraftArg(<<1>>, -1, MaxMult)}
\* grafts of the query machine: attached from bead 0, one graft point beyond
\* the end of the shorter arm
QueryGraftArgs == {GraftArg(<<0>>, 0, 1), GraftArg(<<1, 0>>, 0, MaxMult),
                   GraftArg(<<2>>, 0, 1)}

Init ==
    /\ ft = NewTopology
    /\ ret = [op |-> "init", ok |-> TRUE, val |-> <<>>]
    /\ seg = Segment(<<>>, "DGC")
    /\ stack = <<>>
    /\ heap = NewHeap

AddArmtype ==
    \E d \in ArmDefs :
        /\ Len(ft.arm_types) < MaxArms
        /\ LET r == add_armtype(ft, d)
           IN  /\ ft' = r.t
               /\ ret' = [op |-> "add_armtype", ok |-> r.ok, val |-> r.ind]
        /\ UNCHANGED <<seg, stack, heap>>

AddChaintype(names, limit) ==
    \E d \in ArmDefs, name \in names :
        /\ Len(ft.arm_types) < MaxArms
        /\ Len(ft.chain_types) < limit
        /\ LET r == add_chaintype(ft, d, name)
           IN  /\ ft' = r.t
               /\ ret' = [op |-> "add_chaintype", ok |-> r.ok, val |-> r.ind]
        /\ UNCHANGED <<seg, stack, heap>>

AddGraft(pairs, args, limit) ==
    \E p \in pairs, a \in args :
        /\ Len(ft.g.edges) < limit
        /\ LET r == add_graft(ft, p[1], p[2], a.graft_at, a.graft_from, a.multiplicity)
           IN  /\ ft' = r.t
               /\ ret' = [op |-> "add_graft", ok |-> r.ok,
                          val |-> [u |-> p[1], v |-> p[2], warned |-> r.warned]]
        /\ UNCHANGED <<seg, stack, heap>>

IsValid ==
    /\ ret' = [op |-> "isvalid", ok |-> TRUE, val |-> isvalid(ft)]
    /\ UNCHANGED <<ft, seg, stack, heap>>

\* f = FTSTopology.init_from_dict(FT.to_dict())
InitFromDict ==
    /\ ret' = [op |-> "init_from_dict", ok |-> TRUE, val |-> init_from_dict(to_dict(ft))]
    /\ UNCHANGED <<ft, seg, stack, heap>>

GetGrafts ==
    \E root \in ArmIndices(ft) :
        /\ LET r == get_grafts(ft, root)
           IN  ret' = [op |-> "get_grafts", ok |-> r.ok,
                       val |-> [root |-> root, grafts |-> r.val]]
        /\ UNCHANGED <<ft, seg, stack, heap>>

FullyEnumerate ==
    /\ LET r == fully_enumerate(ft)
       IN  ret' = [op |-> "fully_enumerate", ok |-> r.ok, val |-> r.val]
    /\ UNCHANGED <<ft, seg, stack, heap>>

ExpandToBeads ==
    /\ LET r == expand_to_beads(ft)
       IN  ret' = [op |-> "expand_to_beads", ok |-> r.ok, val |-> r.val]
    /\ UNCHANGED <<ft, seg, stack, heap>>

\* The construction machine: arms, chain types and grafts of either attach
\* end, the validity check and the serialization round trip.
Next ==
    \/ AddArmtype
    \/ AddChaintype(NameArgs, MaxChains)
    \/ AddGraft(ArmPairs(ft), GraftArgs, MaxEdges)
    \/ IsValid
    \/ InitFromDict

Spec == Init /\ [][Next]_vars

\* The query machine: the same construction calls with grafts attached from
\* bead 0, and the enumeration, unrolling and expansion queries.
NextQuery ==
    \/ AddArmtype
    \/ AddChaintype({NoName}, MaxRoots)
    \/ AddGraft(OtherArmPairs(ft), QueryGraftArgs, MaxGrafts)
    \/ GetGrafts
    \/ FullyEnumerate
    \/ ExpandToBeads

SpecQuery == Init /\ [][NextQuery]_vars

\* ================================================================ claims
\* The edge relation of the graft multigraph and its transitive closure.
EdgePairs(g) == {<<g.edges[i].u, g.edges[i].v>> : i \in 1..Len(g.edges)}

RECURSIVE TransitiveClosure(_)
TransitiveClosure(R) ==
    LET step == R \cup {<<p[1], q[2]>> : <<p, q>> \in {pq \in R \X R : pq[1][2] = pq[2][1]}}
    IN  IF step = R THEN R ELSE TransitiveClosure(step)

\* Some arm is, transitively, grafted onto itself.
HasDirectedCycle(g) ==
    \E p \in TransitiveClosure(EdgePairs(g)) : p[1] = p[2]

EdgeCount(g, u, v) ==
    Cardinality({i \in 1..Len(g.edges) : g.edges[i].u = u /\ g.edges[i].v = v})

\* C1: in every reachable state isvalid() is true exactly when the graft
\* multigraph has no directed cycle (a self-loop is a cycle), whatever the
\* attach ends, multiplicities and parallel edges; a call to isvalid()
\* returns that value.
C1_IsValidIffAcyclic ==
    /\ isvalid(ft) <=> ~HasDirectedCycle(ft.g)
    /\ ret.op = "isvalid" => (ret.val <=> ~HasDirectedCycle(ft.g))

\* isvalid() has returned false on a graph whose cycle runs over two arms
\* and is closed by an edge attached from the graft arm's last bead.
C1_Witness ==
    /\ ret.op = "isvalid"
    /\ ret.val = FALSE
    /\ \A i \in 1..Len(ft.g.edges) : ft.g.edges[i].u # ft.g.edges[i].v
    /\ \E i \in 1..Len(ft.g.edges) : ft.g.edges[i].graft_from = -1

\* C4: a graph rebuilt from to_dict() has the same to_dict() (chain types,
\* arm records, segment records, node list, edge list with attributes) and
\* the same isvalid(), for acyclic and cyclic graphs alike; loading does not
\* reject.
C4_RoundTrip ==
    ret.op = "init_from_dict" =>
        /\ ret.ok
        /\ to_dict(ret.val) = to_dict(ft)
        /\ isvalid(ret.val) = isvalid(ft)

\* A cyclic graph with parallel edges and a chain type has been rebuilt.
C4_Witness ==
    /\ ret.op = "init_from_dict"
    /\ ~isvalid(ft)
    /\ ft.chain_types # <<>>
    /\ \E i \in 1..Len(ft.g.edges) :
          EdgeCount(ft.g, ft.g.edges[i].u, ft.g.edges[i].v) > 1

\* C10: add_graft on a (base, graft) pair that already has an edge raises
\* no error, issues the duplicate-edge warning, adds exactly one edge, to
\* that pair, and leaves every existing edge as it was.
C10_DuplicateGraftAccepted ==
    [][(ret'.op = "add_graft" /\ has_edge(ft.g, ret'.val.u, ret'.val.v)) =>
          /\ ret'.ok
          /\ ret'.val.warned
          /\ EdgeCount(ft'.g, ret'.val.u, ret'.val.v)
               = EdgeCount(ft.g, ret'.val.u, ret'.val.v) + 1
          /\ Len(ft'.g.edges) = Len(ft.g.edges) + 1
          /\ \E k \in 1..Len(ft'.g.edges) :
                /\ ft'.g.edges[k].u = ret'.val.u
                /\ ft'.g.edges[k].v = ret'.val.v
                /\ ft.g.edges = SubSeq(ft'.g.edges, 1, k - 1)
                                  \o SubSeq(ft'.g.edges, k + 1, Len(ft'.g.edges))]_vars

\* A warned add_graft has left two parallel edges with different attributes.
C10_Witness ==
    /\ ret.op = "add_graft"
    /\ ret.val.warned
    /\ \E i, j \in 1..Len(ft.g.edges) :
          /\ i < j
          /\ ft.g.edges[i].u = ft.g.edges[j].u
          /\ ft.g.edges[i].v = ft.g.edges[j].v
          /\ ft.g.edges[i].multiplicity # ft.g.edges[j].multiplicity

\* ------------------------------------------------ claims on the queries
AllFromZero(t) == \A i \in 1..Len(t.g.edges) : t.g.edges[i].graft_from = 0

\* Every graft point of every edge is a bead index of its base arm.
AllInRange(t) ==
    \A i \in 1..Len(t.g.edges) :
        \A j \in 1..Len(t.g.edges[i].graft_at) :
            /\ t.g.edges[i].graft_at[j] >= 0
            /\ t.g.edges[i].graft_at[j] < n_beads(t.arm_types[t.g.edges[i].u + 1])

\* Occurrences of one edge: multiplicity x len(attach_positions).
EdgeOccurrences(d) == d.multiplicity * Len(d.graft_at)

\* Graft occurrences below arm r, beads of r with everything grafted below
\* it, and backbone bonds of the same, counted over the edges (defined on
\* the acyclic part of the graph).
RECURSIVE OccCount(_, _)
OccCount(t, r) ==
    LET es == out_edges(t.g, r)
    IN  SumSeq([i \in 1..Len(es) |->
                  EdgeOccurrences(es[i]) * (1 + OccCount(t, es[i].v))])

RECURSIVE OccBeads(_, _)
OccBeads(t, r) ==
    LET es == out_edges(t.g, r)
    IN  n_beads(t.arm_types[r + 1])
        + SumSeq([i \in 1..Len(es) |-> EdgeOccurrences(es[i]) * OccBeads(t, es[i].v)])

RECURSIVE OccBackbone(_, _)
OccBackbone(t, r) ==
    LET es == out_edges(t.g, r)
    IN  (n_beads(t.arm_types[r + 1]) - 1)
        + SumSeq([i \in 1..Len(es) |-> EdgeOccurrences(es[i]) * OccBackbone(t, es[i].v)])

RECURSIVE EntriesOfEdges(_, _, _)
EntriesOfEdges(t, es, entries) ==
    IF es = <<>> THEN entries = <<>>
    ELSE LET d == Head(es)
             k == EdgeOccurrences(d)
             mine == SubSeq(entries, 1, k)
         IN  /\ Len(entries) >= k
             /\ \A j \in 1..k :
                   /\ mine[j].arm = FreshDef(sequence_compactest(t.arm_types[d.v + 1]).val)
                   /\ Len(mine[j].at) = 1
                   /\ mine[j].sub = get_grafts(t, d.v).val
             /\ \A q \in Range(d.graft_at) \cup {mine[j].at[1] : j \in 1..k} :
                   Cardinality({j \in 1..k : mine[j].at[1] = q})
                     = d.multiplicity
                         * Cardinality({j \in 1..Len(d.graft_at) : d.graft_at[j] = q})
             /\ EntriesOfEdges(t, Tail(es), SubSeq(entries, k + 1, Len(entries)))

\* C5: get_grafts(root) returns on every acyclic graph grafted from bead 0;
\* what it returns has multiplicity x len(attach_positions) entries per
\* edge leaving root, each with the graft arm's compact sequence, one attach
\* position and get_grafts(graft arm) as sub-grafts, and every position of
\* an edge in exactly multiplicity entries per time it is listed.
C5_GetGraftsEntries ==
    ret.op = "get_grafts" =>
        /\ (isvalid(ft) /\ AllFromZero(ft)) => ret.ok
        /\ ret.ok =>
             LET es == out_edges(ft.g, ret.val.root)
             IN  /\ Len(ret.val.grafts)
                      = SumSeq([i \in 1..Len(es) |-> EdgeOccurrences(es[i])])
                 /\ EntriesOfEdges(ft, es, ret.val.grafts)

\* get_grafts has returned four entries for one edge of two positions and
\* multiplicity two, each with sub-grafts of its own.
C5_Witness ==
    /\ ret.op = "get_grafts"
    /\ ret.ok
    /\ Len(ret.val.grafts) = 4
    /\ Len(out_edges(ft.g, ret.val.root)) = 1
    /\ \A j \in 1..4 : ret.val.grafts[j].sub # <<>>

\* Every entry of P repeated m times in place: [1,2] x2 gives [1,1,2,2].
InPlace(P, m) == Flatten([j \in 1..Len(P) |-> Repeat(P[j], m)])

\* The graph whose i-th edge was added with the in-place repetition of its
\* attach positions and multiplicity 1 instead.
InPlaceGraph(t, i) ==
    [t EXCEPT !.g.edges[i] =
        [@ EXCEPT !.graft_at = InPlace(@, t.g.edges[i].multiplicity),
                  !.multiplicity = 1]]

\* C6: for two graphs that differ only in one edge having positions P with
\* multiplicity m in one and the in-place repetition of P with multiplicity
\* 1 in the other, get_grafts(root) returns equal results and
\* expand_to_beads() returns equal bead and bond lists.
C6_MultiplicityIsInPlaceRepetition ==
    \A i \in 1..Len(ft.g.edges) :
        LET G2 == InPlaceGraph(ft, i)
        IN  /\ ret.op = "get_grafts" =>
                 get_grafts(G2, ret.val.root)
                   = [ok |-> ret.ok, val |-> ret.val.grafts]
            /\ ret.op = "expand_to_beads" =>
                 expand_to_beads(G2) = [ok |-> ret.ok, val |-> ret.val]

InDegree(t, a) == Cardinality({i \in 1..Len(t.g.edges) : t.g.edges[i].v = a})

\* C7: whenever fully_enumerate() returns a graph F, every edge of F has
\* one attach position, multiplicity 1 and attach end 0; every arm of F has
\* at most one incoming edge; the arms of F without incoming edge are
\* exactly the chain-type roots, one distinct root per chain-type name of
\* the source; and F has as many arms as the sum over the source's chain
\* types of 1 plus the graft occurrences enumerated from the chain's root.
C7_UnrolledOccurrencesAreDistinctArms ==
    (ret.op = "fully_enumerate" /\ ret.ok) =>
        LET F == ret.val
            roots == {F.chain_types[i].ind : i \in 1..Len(F.chain_types)}
        IN  /\ \A i \in 1..Len(F.g.edges) :
                  /\ Len(F.g.edges[i].graft_at) = 1
                  /\ F.g.edges[i].multiplicity = 1
                  /\ F.g.edges[i].graft_from = 0
            /\ \A a \in ArmIndices(F) : InDegree(F, a) <= 1
            /\ {a \in ArmIndices(F) : InDegree(F, a) = 0} = roots
            /\ Cardinality(roots) = Len(F.chain_types)
            /\ [i \in 1..Len(F.chain_types) |-> F.chain_types[i].name]
                 = [i \in 1..Len(ft.chain_types) |-> ft.chain_types[i].name]
            /\ Len(F.arm_types)
                 = SumSeq([i \in 1..Len(ft.chain_types) |->
                             1 + OccCount(ft, ft.chain_types[i].ind)])

\* The unrolled graph holds two grafted arms with the same bead sequence
\* that come from one arm of the source.
C7_Witness ==
    /\ ret.op = "fully_enumerate"
    /\ ret.ok
    /\ \E a, b \in ArmIndices(ret.val) :
          /\ a # b
          /\ InDegree(ret.val, a) = 1
          /\ InDegree(ret.val, b) = 1
          /\ sequence(ret.val.arm_types[a + 1]) = sequence(ret.val.arm_types[b + 1])
    /\ Len(ret.val.arm_types) > Len(ft.arm_types)

\* C8: expand_to_beads() returns on every acyclic graph grafted from bead 0
\* with in-range attach positions; whenever it returns, the node list of
\* every chain type has as many entries as the beads of all arm occurrences
\* reachable from the chain root, and its bond list as many as the backbone
\* bonds of these occurrences plus one connector per grafted occurrence.
C8_ExpansionCounts ==
    ret.op = "expand_to_beads" =>
        /\ (isvalid(ft) /\ AllFromZero(ft) /\ AllInRange(ft)) => ret.ok
        /\ ret.ok =>
             /\ Len(ret.val) = Len(ft.chain_types)
             /\ \A c \in 1..Len(ret.val) :
                   LET root == ft.chain_types[c].ind
                   IN  /\ ret.val[c].name = ft.chain_types[c].name
                       /\ Len(ret.val[c].nodes) = OccBeads(ft, root)
                       /\ Len(ret.val[c].edges)
                            = OccBackbone(ft, root) + OccCount(ft, root)

\* A chain with a graft of two positions and multiplicity two whose arm
\* carries a graft of its own has been expanded.
C8_Witness ==
    /\ ret.op = "expand_to_beads"
    /\ ret.ok
    /\ \E c \in 1..Len(ret.val) :
          /\ OccCount(ft, ft.chain_types[c].ind) >= 5
          /\ Len(ret.val[c].nodes) >= 12

\* The arm occurrences below an arm in depth-first order, each with the
\* global index of its first bead and of its parent's attachment bead (-1
\* for the chain root), from the sizes of the sub-trees.
RECURSIVE Layout(_, _, _, _)
Layout(t, arm, start, attach) ==
    LET n == n_beads(t.arm_types[arm + 1])
        es == out_edges(t.g, arm)
        kids == Flatten(
            [i \in 1..Len(es) |->
                [j \in 1..EdgeOccurrences(es[i]) |->
                    [v |-> es[i].v,
                     p |-> es[i].graft_at[((j - 1) % Len(es[i].graft_at)) + 1]]]])
        kidStart(k) == start + n + SumSeq([j \in 1..(k - 1) |-> OccBeads(t, kids[j].v)])
    IN  <<[arm |-> arm, start |-> start, attach |-> attach]>>
        \o Flatten([k \in 1..Len(kids) |->
                      Layout(t, kids[k].v, kidStart(k), start + kids[k].p)])

BackbonePairs(start, n) == {<<i, i + 1>> : i \in start..(start + n - 2)}

\* One expanded chain against the layout of its occurrences.
LaidOut(t, root, nodes, edges) ==
    LET L == Layout(t, root, 0, -1)
        size(o) == n_beads(t.arm_types[L[o].arm + 1])
    IN  /\ \A o \in 1..Len(L) :
              /\ L[o].start + size(o) <= Len(nodes)
              /\ SubSeq(nodes, L[o].start + 1, L[o].start + size(o))
                   = sequence(t.arm_types[L[o].arm + 1])
              /\ o < Len(L) => L[o + 1].start = L[o].start + size(o)
              /\ o = Len(L) => Len(nodes) = L[o].start + size(o)
              /\ \A i \in L[o].start..(L[o].start + size(o) - 2) :
                    Cardinality({k \in 1..Len(edges) : edges[k] = <<i, i + 1>>}) = 1
              /\ {edges[k] : k \in {k \in 1..Len(edges) : edges[k][2] = L[o].start}}
                   = IF L[o].attach = -1 THEN {} ELSE {<<L[o].attach, L[o].start>>}
              /\ Cardinality({k \in 1..Len(edges) : edges[k][2] = L[o].start})
                   = IF L[o].attach = -1 THEN 0 ELSE 1
        /\ Range(edges)
             = UNION {BackbonePairs(L[o].start, size(o)) : o \in 1..Len(L)}
               \cup {<<L[o].attach, L[o].start>> : o \in {o \in 1..Len(L) : L[o].attach # -1}}

\* C9: whenever expand_to_beads() returns, the lists expand_graft_to_beads
\* built for every chain root are laid out depth-first: every arm occurrence
\* holds its verbose sequence in one contiguous range that starts where the
\* previous occurrence and all its sub-grafts end, its bonds are (i, i+1) on
\* that range, and a grafted occurrence has exactly one connector bond
\* (parent_start + attach_position, start).
C9_DepthFirstLayout ==
    (ret.op = "expand_to_beads" /\ ret.ok) =>
        \A c \in 1..Len(ret.val) :
            /\ expand_graft_to_beads(ft, ft.chain_types[c].ind)
                 = [ok |-> TRUE, nodes |-> ret.val[c].nodes, edges |-> ret.val[c].edges]
            /\ LaidOut(ft, ft.chain_types[c].ind, ret.val[c].nodes, ret.val[c].edges)

\* An expanded chain has a sub-graft emitted before the next graft of its
\* parent, and a connector that does not start at the preceding bead.
C9_Witness ==
    /\ ret.op = "expand_to_beads"
    /\ ret.ok
    /\ \E c \in 1..Len(ret.val) :
          LET L == Layout(ft, ft.chain_types[c].ind, 0, -1)
          IN  \E o \in 2..(Len(L) - 1) :
                 /\ L[o].attach >= L[o - 1].start
                 /\ L[o - 1].attach # -1
                 /\ L[o + 1].attach < L[o - 1].start
                 /\ L[o + 1].attach # L[o + 1].start - 1

\* ------------------------------------------------ the Segment machine
MaxBlocks == 2
MaxBeads == 4

\* Block definitions: str and int bead names, bare or with a count (the
\* code takes any int as a count).
BlockDefs ==
    {Bare("A"), Bare("B"), Bare("#1"),
     Pair("A", 2), Pair("B", 1), Pair("#1", 2), Pair("A", 0), Pair("B", -1)}

RECURSIVE SeqsUpTo(_, _)
SeqsUpTo(S, n) ==
    IF n = 0 THEN {<<>>}
    ELSE LET shorter == SeqsUpTo(S, n - 1)
         IN  shorter \cup {Append(q, x) : q \in shorter, x \in S}

SegDefs == SeqsUpTo(BlockDefs, MaxBlocks)
\* the right-hand sides of ==: Segments of at most one block
OtherDefs == SeqsUpTo(BlockDefs, 1)
StatArgs == {"DGC", "fjc", "gaussian"}
Forms == {"sequence", "sequence_compact", "sequence_compactest"}

\* s = Segment(segdef, stat)
SegNew ==
    \E d \in SegDefs, st \in StatArgs :
        /\ seg' = Segment(d, st)
        /\ ret' = [op |-> "Segment", ok |-> TRUE, val |-> <<>>]
        /\ UNCHANGED <<ft, stack, heap>>

\* s.add_block(species_name, num)
SegAddBlock ==
    \E b \in BlockDefs :
        /\ Len(seg.blocks) < MaxBlocks
        /\ Len(sequence(seg.blocks)) + Len(Repeat(b.sp, b.n)) <= MaxBeads
        /\ seg' = [seg EXCEPT !.blocks = Append(@, add_block(b.sp, b.n))]
        /\ ret' = [op |-> "add_block", ok |-> TRUE, val |-> <<>>]
        /\ UNCHANGED <<ft, stack, heap>>

\* s.to_compact(); ret keeps the Segment as it was before the call.
SegToCompact ==
    /\ LET r == to_compact(seg)
       IN  /\ seg' = r.val
           /\ ret' = [op |-> "to_compact", ok |-> r.ok, val |-> seg]
    /\ UNCHANGED <<ft, stack, heap>>

\* Segment(s.sequence()), Segment(s.sequence_compact()) and
\* Segment(s.sequence_compactest()).
SegRebuild ==
    \E form \in Forms :
        /\ LET c == IF form = "sequence"
                    THEN Returned(VerboseDef(sequence(seg.blocks)))
                    ELSE IF form = "sequence_compact"
                    THEN LET r == sequence_compact(seg.blocks)
                         IN  [ok |-> r.ok, val |-> CompactDef(r.val)]
                    ELSE sequence_compactest(seg.blocks)
           IN  ret' = [op |-> "rebuild", ok |-> c.ok,
                       val |-> [form |-> form,
                                seg |-> IF c.ok THEN Segment(c.val, "DGC")
                                        ELSE <<>>]]
        /\ UNCHANGED <<ft, seg, stack, heap>>

\* s == other
SegEq ==
    \E d \in OtherDefs, st \in StatArgs :
        /\ LET other == Segment(d, st)
               r == Segment__eq__(seg, other)
           IN  ret' = [op |-> "__eq__", ok |-> r # PyKeyError,
                       val |-> [other |-> other, result |-> r]]
        /\ UNCHANGED <<ft, seg, stack, heap>>

NextSegment ==
    \/ SegNew
    \/ SegAddBlock
    \/ SegToCompact
    \/ SegRebuild
    \/ SegEq

SpecSegment == Init /\ [][NextSegment]_vars

\* ------------------------------------------------ claims on Segment
\* A Segment as the specification describes one: at least one block, every
\* count >= 1.
WellFormedSegment(s) ==
    /\ s.blocks # <<>>
    /\ \A i \in 1..Len(s.blocks) : s.blocks[i].n >= 1

\* C18: for every Segment s (here: every s with at least one block and all
\* counts >= 1), len(s.sequence()) equals s.n_beads, the Segment built from
\* s.sequence() has the same sequence_compact() as s, to_compact() leaves
\* sequence() unchanged and a second to_compact() changes nothing.
C18_CompactionIdempotent ==
    WellFormedSegment(seg) =>
    /\ Len(sequence(seg.blocks)) = n_beads(seg.blocks)
    /\ (ret.op = "rebuild" /\ ret.val.form = "sequence") =>
          /\ ret.ok
          /\ sequence_compact(seg.blocks).ok
          /\ sequence_compact(ret.val.seg.blocks) = sequence_compact(seg.blocks)
    /\ ret.op = "to_compact" =>
          /\ ret.ok
          /\ sequence(seg.blocks) = sequence(ret.val.blocks)
          /\ to_compact(seg) = Returned(seg)

\* C19: for every Segment s (here: every s with at least one block and all
\* counts >= 1), sequence_compact() has no two adjacent blocks of one
\* species, sequence_compactest() is that list with every count-1 block
\* written as the bare species, and the Segment constructed from
\* s.sequence(), s.sequence_compact() or s.sequence_compactest() has the
\* verbose sequence of s.
C19_RepresentationsLossless ==
    WellFormedSegment(seg) =>
    /\ LET c == sequence_compact(seg.blocks)
           cc == sequence_compactest(seg.blocks)
       IN  /\ c.ok /\ cc.ok
           /\ \A i \in 1..(Len(c.val) - 1) : c.val[i].sp # c.val[i + 1].sp
           /\ Len(cc.val) = Len(c.val)
           /\ \A i \in 1..Len(c.val) :
                 /\ c.val[i].n >= 1
                 /\ cc.val[i] = IF c.val[i].n = 1 THEN Bare(c.val[i].sp)
                                ELSE Pair(c.val[i].sp, c.val[i].n)
    /\ ret.op = "rebuild" =>
          /\ ret.ok
          /\ sequence(ret.val.seg.blocks) = sequence(seg.blocks)

\* C20: a == b evaluates to true exactly when a.sequence() == b.sequence()
\* and a.statistics == b.statistics, and to false otherwise.
C20_EqualityComparesSequenceAndStatistics ==
    ret.op = "__eq__" =>
        ret.val.result =
            IF /\ sequence(seg.blocks) = sequence(ret.val.other.blocks)
               /\ seg.statistics = ret.val.other.statistics
            THEN PyTrue ELSE PyFalse

\* ------------------------------------------ the construction-error machine
\* Construction calls with arguments of every kind the methods take: arm
\* definitions without beads, arm indices beyond the arm list, attach ends
\* other than 0 and -1, negative graft points.
MaxErrArms == 2

ErrArmDefs == {FreshDef(<<Pair("A", 2)>>), FreshDef(<<>>), FreshDef(<<Pair("A", 0)>>)}
AnyIndexPairs == (0..MaxErrArms) \X (0..MaxErrArms)
ErrGraftArgs == {GraftArg(<<0>>, 0, 1), GraftArg(<<1>>, -1, 1),
                 GraftArg(<<0>>, 1, 1), GraftArg(<<1>>, -2, MaxMult),
                 GraftArg(<<-1>>, 0, 1), GraftArg(<<0, -2>>, 0, MaxMult)}

AddArmtypeOf(defs) ==
    \E d \in defs :
        /\ Len(ft.arm_types) < MaxErrArms
        /\ LET r == add_armtype(ft, d)
           IN  /\ ft' = r.t
               /\ ret' = [op |-> "add_armtype", ok |-> r.ok,
                          val |-> [ind |-> r.ind, def |-> d.def]]
        /\ UNCHANGED <<seg, stack, heap>>

AddChaintypeOf(defs, limit) ==
    \E d \in defs :
        /\ Len(ft.arm_types) < MaxErrArms
        /\ Len(ft.chain_types) < limit
        /\ LET r == add_chaintype(ft, d, NoName)
           IN  /\ ft' = r.t
               /\ ret' = [op |-> "add_chaintype", ok |-> r.ok,
                          val |-> [ind |-> r.ind, def |-> d.def]]
        /\ UNCHANGED <<seg, stack, heap>>

\* add_graft; ret keeps the arguments of the call.
AddGraftCall(pairs, args, limit) ==
    \E p \in pairs, a \in args :
        /\ Len(ft.g.edges) < limit
        /\ LET r == add_graft(ft, p[1], p[2], a.graft_at, a.graft_from, a.multiplicity)
           IN  /\ ft' = r.t
               /\ ret' = [op |-> "add_graft", ok |-> r.ok,
                          val |-> [u |-> p[1], v |-> p[2], warned |-> r.warned,
                                   graft_at |-> a.graft_at,
                                   graft_from |-> a.graft_from,
                                   multiplicity |-> a.multiplicity]]
        /\ UNCHANGED <<seg, stack, heap>>

NextErr ==
    \/ AddArmtypeOf(ErrArmDefs)
    \/ AddChaintypeOf(ErrArmDefs, MaxChains)
    \/ AddGraftCall(AnyIndexPairs, ErrGraftArgs, MaxEdges)

SpecErr == Init /\ [][NextErr]_vars

\* ------------------------------------------ claims on construction errors
\* C11: an add_graft call with an attach end other than 0 and -1 raises and
\* leaves the arm list, the graft multigraph and the chain-type map as they
\* were; a call with attach end 0 or -1 is accepted.
C11_AttachEndChecked ==
    [][ret'.op = "add_graft" =>
          /\ ret'.val.graft_from \notin {0, -1} => (~ret'.ok /\ ft' = ft)
          /\ ret'.val.graft_from \in {0, -1} =>
                /\ ret'.ok
                /\ Len(ft'.g.edges) = Len(ft.g.edges) + 1
                /\ \E i \in 1..Len(ft'.g.edges) :
                      ft'.g.edges[i].graft_from = ret'.val.graft_from]_vars

\* An add_graft with a bad attach end has been refused on a graph that
\* holds arms, a chain type and an edge attached from the last bead.
C11_Witness ==
    /\ ret.op = "add_graft"
    /\ ~ret.ok
    /\ ret.val.graft_from \notin {0, -1}
    /\ ft.chain_types # <<>>
    /\ \E i \in 1..Len(ft.g.edges) : ft.g.edges[i].graft_from = -1

\* C12: an add_graft call (here: between two existing arms, with attach end
\* 0 or -1) whose attach positions contain a negative integer raises and
\* adds no edge, so no edge between existing arms has a negative attach
\* position.
C12_NegativePositionsRejected ==
    /\ (ret.op = "add_graft"
        /\ ret.val.u \in ArmIndices(ft) /\ ret.val.v \in ArmIndices(ft)
        /\ ret.val.graft_from \in {0, -1}
        /\ \E j \in 1..Len(ret.val.graft_at) : ret.val.graft_at[j] < 0)
          => ~ret.ok
    /\ \A i \in 1..Len(ft.g.edges) :
          (ft.g.edges[i].u \in ArmIndices(ft) /\ ft.g.edges[i].v \in ArmIndices(ft))
            => \A j \in 1..Len(ft.g.edges[i].graft_at) :
                  ft.g.edges[i].graft_at[j] >= 0

\* C13: an add_graft call whose base or graft index is not the index of an
\* arm raises and leaves the graph unchanged, so every edge endpoint and
\* every graph node is the index of an arm of the arm list (here: as long
\* as every accepted call had non-negative attach positions).
NoNegativePositions(t) ==
    \A i \in 1..Len(t.g.edges) :
        \A j \in 1..Len(t.g.edges[i].graft_at) : t.g.edges[i].graft_at[j] >= 0

C13_EndpointsAreArms ==
    NoNegativePositions(ft) =>
    /\ (ret.op = "add_graft"
        /\ (ret.val.u \notin ArmIndices(ft) \/ ret.val.v \notin ArmIndices(ft)))
          => ~ret.ok
    /\ Range(ft.g.nodes) \subseteq ArmIndices(ft)
    /\ \A i \in 1..Len(ft.g.edges) :
          ft.g.edges[i].u \in ArmIndices(ft) /\ ft.g.edges[i].v \in ArmIndices(ft)

\* C14: add_armtype / add_chaintype with a definition of zero beads raise
\* and append no arm, so every arm of the arm list has n_beads >= 1 and
\* every stored block a count >= 1.
C14_ZeroBeadArmRejected ==
    /\ (ret.op \in {"add_armtype", "add_chaintype"}
        /\ n_beads(update(ret.val.def)) = 0)
          => ~ret.ok
    /\ \A i \in 1..Len(ft.arm_types) :
          /\ n_beads(ft.arm_types[i]) >= 1
          /\ \A k \in 1..Len(ft.arm_types[i]) : ft.arm_types[i][k].n >= 1

\* ------------------------------------------ the lazy-error machine
\* Construction calls that add_graft accepts and the traversals may refuse:
\* grafts attached from the last bead, graft points beyond the end of the
\* base arm, negative graft points.
LazyGraftArgs == {GraftArg(<<0>>, 0, 1), GraftArg(<<1, 0>>, 0, MaxMult),
                  GraftArg(<<2>>, 0, 1), GraftArg(<<0>>, -1, 1),
                  GraftArg(<<-1>>, 0, 1)}

NextLazy ==
    \/ AddArmtype
    \/ AddChaintype({NoName}, MaxChains)
    \/ AddGraft(OtherArmPairs(ft), LazyGraftArgs, MaxGrafts)
    \/ GetGrafts
    \/ FullyEnumerate
    \/ ExpandToBeads

SpecLazy == Init /\ [][NextLazy]_vars

\* ------------------------------------------ claims on traversal errors
\* The arms a traversal started at roots comes to.
Reachable(t, roots) ==
    roots \cup {p[2] : p \in {q \in TransitiveClosure(EdgePairs(t.g)) : q[1] \in roots}}

ChainRoots(t) == {t.chain_types[i].ind : i \in 1..Len(t.chain_types)}

\* Some arm the traversal comes to has an outgoing edge attached from the
\* last bead of the graft arm.
LastBeadEdgeReachable(t, roots) ==
    \E i \in 1..Len(t.g.edges) :
        t.g.edges[i].u \in Reachable(t, roots) /\ t.g.edges[i].graft_from = -1

\* C15: get_grafts(root), fully_enumerate() and expand_to_beads() raise and
\* return nothing whenever an arm reachable from their root(s) has an
\* outgoing edge with attach end -1.
C15_LastBeadGraftsRefused ==
    /\ ret.op = "get_grafts" =>
          (LastBeadEdgeReachable(ft, {ret.val.root})
             => ~ret.ok /\ ret.val.grafts = <<>>)
    /\ ret.op \in {"fully_enumerate", "expand_to_beads"} =>
          (LastBeadEdgeReachable(ft, ChainRoots(ft)) => ~ret.ok /\ ret.val = <<>>)

\* expand_to_beads has raised on an acyclic graph with all graft points in
\* range whose only edge attached from the last bead leaves a grafted arm.
C15_Witness ==
    /\ ret.op = "expand_to_beads"
    /\ ~ret.ok
    /\ isvalid(ft)
    /\ AllInRange(ft)
    /\ \A i \in 1..Len(ft.g.edges) :
          ft.g.edges[i].graft_from = -1 => ft.g.edges[i].u \notin ChainRoots(ft)
    /\ LastBeadEdgeReachable(ft, ChainRoots(ft))

\* Some arm the traversal comes to has an outgoing edge with a graft point
\* that is not in 0..n_beads(base arm)-1.
OutOfRangeReachable(t, roots) ==
    \E i \in 1..Len(t.g.edges) :
        /\ t.g.edges[i].u \in Reachable(t, roots)
        /\ \E j \in 1..Len(t.g.edges[i].graft_at) :
              t.g.edges[i].graft_at[j]
                 \notin 0..(n_beads(t.arm_types[t.g.edges[i].u + 1]) - 1)

\* C16: expand_to_beads() raises, returning no bead or bond list, whenever
\* the traversal from a chain root reaches an edge with a graft point that
\* is not in 0..n_beads(base arm)-1.
C16_OutOfRangeRefusedAtExpansion ==
    ret.op = "expand_to_beads" =>
        (OutOfRangeReachable(ft, ChainRoots(ft)) => ~ret.ok /\ ret.val = <<>>)

\* ------------------------------------------ the traversal machine
\* The recursive methods run one step at a time on a call stack.  A frame
\* of get_grafts / expand_graft_to_beads is at arm `arm`, at its edge
\* number `edge`, repetition `rep` and graft point number `pt` (the three
\* nested loops); a frame of add_path is at branch `k` of its branch_defs
\* and at sub-graft `sg` of that branch (0: the branch's arm and graft are
\* still to be added); the bottom frame of fully_enumerate /
\* expand_to_beads is at chain type `k`.
\* The interpreter's recursion limit, counted in frames.
RecursionLimit == 6

ArmFrame(fn, arm) == [fn |-> fn, arm |-> arm, edge |-> 1, rep |-> 1, pt |-> 1]
PathFrame(branch_defs) == [fn |-> "add_path", entries |-> branch_defs, k |-> 1, sg |-> 0]
ChainsFrame(fn) == [fn |-> fn, k |-> 1, phase |-> "get_grafts"]

\* A recursion that goes back to the base arm of the edge.
base_of_edge(d) == d.u

\* The arm the recursive call is made on: self.get_grafts(e),
\* self.expand_graft_to_beads(e, ...) with e the graft arm of the edge.
callee(d) == d.v

Top == stack[Len(stack)]
Below == SubSeq(stack, 1, Len(stack) - 1)
ReplaceTop(f) == Append(Below, f)

\* The call at the bottom of the stack has returned or raised.
Finish(ok) ==
    /\ stack' = <<>>
    /\ ret' = [op |-> stack[1].fn, ok |-> ok, val |-> <<>>]

\* A frame returns to its caller.
Return ==
    IF Len(stack) = 1 THEN Finish(TRUE)
    ELSE stack' = Below /\ ret' = ret

\* A call from the top frame, which has moved on to `next` meanwhile.
Call(next, frame) ==
    IF Len(stack) >= RecursionLimit THEN Finish(FALSE)
    ELSE stack' = Append(ReplaceTop(next), frame) /\ ret' = ret

\* One step of get_grafts / expand_graft_to_beads at the top of the stack.
ArmStep ==
    LET f == Top
        grafts == out_edges(ft.g, f.arm)
    IN  IF f.edge > Len(grafts) THEN Return
        ELSE LET d == grafts[f.edge]
             IN  IF ~grafted_from_zero(d) THEN Finish(FALSE)
                 ELSE IF f.rep > d.multiplicity
                 THEN stack' = ReplaceTop([f EXCEPT !.edge = @ + 1, !.rep = 1, !.pt = 1])
                      /\ ret' = ret
                 ELSE IF f.pt > Len(d.graft_at)
                 THEN stack' = ReplaceTop([f EXCEPT !.rep = @ + 1, !.pt = 1])
                      /\ ret' = ret
                 ELSE IF f.fn = "expand_graft_to_beads"
                         /\ ~attach_bead(0, n_beads(ft.arm_types[f.arm + 1]),
                                         d.graft_at[f.pt]).ok
                 THEN Finish(FALSE)
                 ELSE IF f.fn = "get_grafts"
                         /\ ~sequence_compactest(ft.arm_types[callee(d) + 1]).ok
                 THEN Finish(FALSE)
                 ELSE Call([f EXCEPT !.pt = @ + 1], ArmFrame(f.fn, callee(d)))

\* One step of add_path(mode=1) on the nested list get_grafts returned.
PathStep ==
    LET f == Top
    IN  IF f.k > Len(f.entries) THEN Return
        ELSE LET sub_grafts == f.entries[f.k].sub
             IN  IF f.sg = 0
                 THEN stack' = ReplaceTop([f EXCEPT !.sg = 1]) /\ ret' = ret
                 ELSE IF f.sg > Len(sub_grafts)
                 THEN stack' = ReplaceTop([f EXCEPT !.k = @ + 1, !.sg = 0])
                      /\ ret' = ret
                 ELSE Call([f EXCEPT !.sg = @ + 1], PathFrame(<<sub_grafts[f.sg]>>))

\* One step of the loop over the chain types in fully_enumerate /
\* expand_to_beads.
ChainsStep ==
    LET f == Top
    IN  IF f.k > Len(ft.chain_types) THEN Return
        ELSE LET arm_index == ft.chain_types[f.k].ind
             IN  IF f.fn = "expand_to_beads"
                 THEN Call([f EXCEPT !.k = @ + 1],
                           ArmFrame("expand_graft_to_beads", arm_index))
                 ELSE IF f.phase = "get_grafts"
                 THEN Call([f EXCEPT !.phase = "add_path"],
                           ArmFrame("get_grafts", arm_index))
                 ELSE Call([f EXCEPT !.phase = "get_grafts", !.k = @ + 1],
                           PathFrame(get_grafts(ft, arm_index).val))

\* The running call makes its next step.
TravStep ==
    /\ stack # <<>>
    /\ IF Top.fn \in {"get_grafts", "expand_graft_to_beads"} THEN ArmStep
       ELSE IF Top.fn = "add_path" THEN PathStep
       ELSE ChainsStep
    /\ UNCHANGED <<ft, seg, heap>>

\* get_grafts(root) is called.
TravGetGrafts ==
    \E root \in ArmIndices(ft) :
        /\ stack = <<>>
        /\ stack' = <<ArmFrame("get_grafts", root)>>
        /\ ret' = [op |-> "call", ok |-> TRUE, val |-> <<root>>]
        /\ UNCHANGED <<ft, seg, heap>>

\* fully_enumerate() or expand_to_beads() is called.
TravChains ==
    \E fn \in {"fully_enumerate", "expand_to_beads"} :
        /\ stack = <<>>
        /\ stack' = <<ChainsFrame(fn)>>
        /\ ret' = [op |-> "call", ok |-> TRUE, val |-> <<>>]
        /\ UNCHANGED <<ft, seg, heap>>

TravGraftArgs == {GraftArg(<<0>>, 0, 1), GraftArg(<<1, 0>>, 0, MaxMult),
                  GraftArg(<<0>>, -1, 1)}

\* The construction calls, made while no traversal is running; ret keeps
\* only whether the call returned.
Built(op, r) ==
    /\ stack = <<>>
    /\ ft' = r.t
    /\ ret' = [op |-> op, ok |-> r.ok, val |-> <<>>]
    /\ UNCHANGED <<seg, stack, heap>>

\* One arm of one bead and one of two: graft point 1 is beyond the first.
TravArmDefs == {FreshDef(<<Bare("A")>>), FreshDef(<<Pair("A", 2)>>)}

TravAddArmtype ==
    \E d \in TravArmDefs :
        /\ Len(ft.arm_types) < MaxArms
        /\ Built("add_armtype", add_armtype(ft, d))

TravAddChaintype ==
    \E d \in {FreshDef(<<Pair("A", 2)>>)} :
        /\ Len(ft.arm_types) < MaxArms
        /\ Len(ft.chain_types) < MaxChains
        /\ Built("add_chaintype", add_chaintype(ft, d, NoName))

TravAddGraft ==
    \E p \in OtherArmPairs(ft), a \in TravGraftArgs :
        /\ Len(ft.g.edges) < MaxGrafts
        /\ Built("add_graft", add_graft(ft, p[1], p[2], a.graft_at,
                                        a.graft_from, a.multiplicity))

NextTraverse ==
    \/ TravAddArmtype
    \/ TravAddChaintype
    \/ TravAddGraft
    \/ TravGetGrafts
    \/ TravChains
    \/ TravStep

\* A call that has started keeps running: the methods are plain sequential
\* code and nothing else runs meanwhile.  Every step changes the stack.
SpecTraverse == Init /\ [][NextTraverse]_vars /\ WF_stack(TravStep)

\* ------------------------------------------ claims on termination
\* The number of arms on the longest graft chain that starts at arm a (on
\* an acyclic graph).
RECURSIVE ChainLength(_, _)
ChainLength(t, a) ==
    LET es == out_edges(t.g, a)
    IN  1 + (IF es = <<>> THEN 0
             ELSE Max({ChainLength(t, es[i].v) : i \in 1..Len(es)}))

LongestChain(t) ==
    IF t.arm_types = <<>> THEN 0
    ELSE Max({ChainLength(t, a) : a \in ArmIndices(t)})

\* The frames of one recursive method on the stack.
Depth(fn) == Cardinality({i \in 1..Len(stack) : stack[i].fn = fn})

\* C17: on every graph on which isvalid() is true, a running get_grafts,
\* fully_enumerate or expand_to_beads call eventually returns or raises,
\* and no recursive method ever has more frames on the stack than the
\* longest graft chain has arms.
C17_TraversalTerminates ==
    /\ [](isvalid(ft) =>
            \A fn \in {"get_grafts", "expand_graft_to_beads", "add_path"} :
                Depth(fn) <= LongestChain(ft))
    /\ (stack # <<>> /\ isvalid(ft)) ~> (stack = <<>>)

\* A traversal of a chain of three arms is three frames deep.
C17_Witness ==
    /\ isvalid(ft)
    /\ LongestChain(ft) = 3
    /\ Depth("expand_graft_to_beads") = 3
    /\ stack[1].fn = "expand_to_beads"

\* ------------------------------------------ the path machine
\* Construction with add_path in both modes next to the single calls.  The
\* arms of add_graft and of the branches are indices of any kind: of an
\* arm that exists or of one that does not exist (yet).
Branch(arm, at, sub) == [arm |-> arm, at |-> at, sub |-> sub]

PathArmDefs == {FreshDef(<<Pair("A", 2)>>)}
PathRoots == {SegIndex(0), FreshDef(<<Pair("A", 2)>>)}
PathBranchDefs ==
    {<<>>,
     <<Branch(SegIndex(0), <<0>>, <<>>)>>,
     <<Branch(SegIndex(1), <<0>>, <<>>), Branch(SegIndex(2), <<1>>, <<>>)>>,
     <<Branch(SegIndex(1), <<0>>, <<Branch(SegIndex(2), <<0>>, <<>>)>>)>>,
     <<Branch(SegIndex(0), <<1>>, <<>>), Branch(FreshDef(<<Pair("A", 2)>>), <<0>>, <<>>)>>}
PathGraftArgs == {GraftArg(<<0>>, 0, 1)}
PathIndexPairs == (0..1) \X (0..1)

\* add_path(root, *branch_defs, mode=mode, as_chain_name=name); ret keeps
\* the branches and the mode of the call.
AddPath ==
    \E root \in PathRoots, branch_defs \in PathBranchDefs,
       mode \in {0, 1}, name \in {NoName, "Ch"} :
        LET r == add_path(ft, root, branch_defs, mode, name)
        IN  /\ Len(r.t.arm_types) <= MaxArms
            /\ Len(r.t.g.edges) <= MaxEdges
            /\ ft' = r.t
            /\ ret' = [op |-> "add_path", ok |-> r.ok,
                       val |-> [branch_defs |-> branch_defs, mode |-> mode]]
            /\ UNCHANGED <<seg, stack, heap>>

PathAddArmtype ==
    \E d \in PathArmDefs :
        /\ Len(ft.arm_types) < MaxArms
        /\ LET r == add_armtype(ft, d)
           IN  /\ ft' = r.t
               /\ ret' = [op |-> "add_armtype", ok |-> r.ok, val |-> r.ind]
        /\ UNCHANGED <<seg, stack, heap>>

PathAddChaintype ==
    \E d \in PathArmDefs :
        /\ Len(ft.arm_types) < MaxArms
        /\ Len(ft.chain_types) < MaxChains
        /\ LET r == add_chaintype(ft, d, NoName)
           IN  /\ ft' = r.t
               /\ ret' = [op |-> "add_chaintype", ok |-> r.ok, val |-> r.ind]
        /\ UNCHANGED <<seg, stack, heap>>

NextPath ==
    \/ PathAddArmtype
    \/ PathAddChaintype
    \/ AddGraft(PathIndexPairs, PathGraftArgs, MaxEdges)
    \/ AddPath
    \/ IsValid

SpecPath == Init /\ [][NextPath]_vars

\* ------------------------------------------ claims on construction
\* The arm at a node has an edge.
HasEdgeAt(g, n) == \E i \in 1..Len(g.edges) : g.edges[i].u = n \/ g.edges[i].v = n

\* C22: the number of arms never decreases, the bead sequence stored at an
\* existing index never changes, and each add_armtype places the new arm at
\* the index equal to the previous arm count and registers a graph node for
\* it that has no edges.
C22_ArmListAppendOnly ==
    [][/\ Len(ft'.arm_types) >= Len(ft.arm_types)
       /\ \A i \in 1..Len(ft.arm_types) :
            sequence(ft'.arm_types[i]) = sequence(ft.arm_types[i])
       /\ (ret'.op = "add_armtype" /\ ret'.ok) =>
            /\ ret'.val = Len(ft.arm_types)
            /\ Len(ft'.arm_types) = Len(ft.arm_types) + 1
            /\ ret'.val \in Range(ft'.g.nodes)
            /\ ~HasEdgeAt(ft'.g, ret'.val)]_vars

\* C30: when an add_path call fails, the arm list, the edge multigraph and
\* the chain-type map are the same as before the call.
C30_AddPathAllOrNothing ==
    [][(ret'.op = "add_path" /\ ~ret'.ok) => ft' = ft]_vars

\* C25: add_graft never rejects an edge for closing a cycle, and once
\* isvalid() is false it stays false after every further add_armtype,
\* add_chaintype, add_graft and add_path call.
C25_InvalidityPermanent ==
    [][/\ ~isvalid(ft) => ~isvalid(ft')
       /\ ret'.op = "add_graft" =>
            /\ ret'.ok
            /\ Len(ft'.g.edges) = Len(ft.g.edges) + 1]_vars

\* add_graft has closed a cycle of two arms.
C25_Witness ==
    /\ ret.op = "add_graft"
    /\ ret.ok
    /\ ~isvalid(ft)
    /\ Len(ft.g.edges) = 2
    /\ \A i \in 1..2 : ft.g.edges[i].u # ft.g.edges[i].v

\* ------------------------------------------ the chain-type machine
\* Chain types with and without a name on graphs that have grafts.  An
\* explicit name is given once: never a name the map already holds.
ChainNameArgs == {NoName, "Chain2", "Ch"}

AddNamedChaintype ==
    \E d \in ArmDefs, name \in ChainNameArgs :
        /\ Len(ft.arm_types) < MaxArms
        /\ name # NoName => ~dict_has(ft.chain_types, name)
        /\ LET r == add_chaintype(ft, d, name)
           IN  /\ ft' = r.t
               /\ ret' = [op |-> "add_chaintype", ok |-> r.ok,
                          val |-> [name |-> name, ind |-> r.ind]]
        /\ UNCHANGED <<seg, stack, heap>>

NextChains ==
    \/ AddArmtype
    \/ AddNamedChaintype
    \/ AddGraft(ArmPairs(ft), {GraftArg(<<0>>, 0, 1)}, MaxEdges)

SpecChains == Init /\ [][NextChains]_vars

\* C23: add_chaintype adds exactly one arm, records name -> index of that
\* new arm in the chain-type map, and leaves the edges, every existing arm
\* and the value of isvalid() as they were.
C23_ChaintypeIsBookmark ==
    [][(ret'.op = "add_chaintype" /\ ret'.ok) =>
        /\ Len(ft'.arm_types) = Len(ft.arm_types) + 1
        /\ ret'.val.ind = Len(ft.arm_types)
        /\ \E i \in 1..Len(ft'.chain_types) :
            /\ ft'.chain_types[i].ind = ret'.val.ind
            /\ ret'.val.name # NoName => ft'.chain_types[i].name = ret'.val.name
        /\ \A i \in 1..Len(ft'.chain_types) :
            ft'.chain_types[i].ind # ret'.val.ind =>
                ft'.chain_types[i] \in Range(ft.chain_types)
        /\ ft'.g.edges = ft.g.edges
        /\ \A i \in 1..Len(ft.arm_types) : ft'.arm_types[i] = ft.arm_types[i]
        /\ isvalid(ft') = isvalid(ft)]_vars

\* A second chain type has been added to a graph with a cycle of grafts.
C23_Witness ==
    /\ ret.op = "add_chaintype"
    /\ ret.ok
    /\ Len(ft.chain_types) = 2
    /\ Len(ft.g.edges) = 2
    /\ ~isvalid(ft)

\* C26: an add_chaintype call without a name (and one with a name not used
\* before) adds one entry to the chain-type map and leaves every earlier
\* name mapped to the arm index it was given.
C26_UnnamedNeverOverwrites ==
    [][(ret'.op = "add_chaintype" /\ ret'.ok) =>
        /\ Len(ft'.chain_types) = Len(ft.chain_types) + 1
        /\ \A i \in 1..Len(ft.chain_types) :
            ft.chain_types[i] \in Range(ft'.chain_types)]_vars

\* ------------------------------------------ claims on the bond list
\* The bonds of a chain in the order "backbone bonds of the occurrence,
\* then its connector bond, then the bonds of its own grafts", over the
\* arm occurrences in depth-first order.
BondsBackboneFirst(t, root) ==
    LET L == Layout(t, root, 0, -1)
    IN  Flatten([o \in 1..Len(L) |->
            backbone_edges(L[o].start, n_beads(t.arm_types[L[o].arm + 1]))
            \o (IF L[o].attach = -1 THEN <<>>
                ELSE <<<<L[o].attach, L[o].start>>>>)])

\* C24: for each grafted arm occurrence the bond list holds first the arm's
\* backbone bonds (i, i+1), then the connector bond (attach bead, start),
\* and only then the bonds of the arm's own grafts.
C24_BackboneBeforeConnector ==
    (ret.op = "expand_to_beads" /\ ret.ok) =>
        \A c \in 1..Len(ret.val) :
            ret.val[c].edges = BondsBackboneFirst(ft, ft.chain_types[c].ind)

\* ------------------------------------------ the expansion machine
\* Expansion of chains whose arms may have no beads and whose graft points
\* may lie beyond the arm or be negative.
NextExpand ==
    \/ AddArmtypeOf(ErrArmDefs)
    \/ AddChaintypeOf(ErrArmDefs, MaxChains)
    \/ AddGraft(OtherArmPairs(ft), LazyGraftArgs, MaxGrafts)
    \/ ExpandToBeads

SpecExpand == Init /\ [][NextExpand]_vars

\* The bonds form one tree over the beads, every bond from a lower to a
\* higher bead index.
TreeOfBeads(nodes, edges) ==
    /\ \A k \in 1..Len(edges) :
          /\ 0 <= edges[k][1]
          /\ edges[k][1] < edges[k][2]
          /\ edges[k][2] < Len(nodes)
    /\ \A k \in 1..Len(edges) : edges[k][2] # 0
    /\ \A j \in 1..(Len(nodes) - 1) :
          Cardinality({k \in 1..Len(edges) : edges[k][2] = j}) = 1
    /\ Len(edges) = Len(nodes) - 1

\* C29: in the (node_list, edge_list) of every chain of a successful
\* expansion, every bond (i, j) has 0 <= i < j < len(node_list), bead 0 is
\* the second component of no bond, every bead j >= 1 is the second
\* component of exactly one bond, and len(edge_list) == len(node_list) - 1.
C29_BondsFormSpanningTree ==
    (ret.op = "expand_to_beads" /\ ret.ok) =>
        \A c \in 1..Len(ret.val) :
            TreeOfBeads(ret.val[c].nodes, ret.val[c].edges)

\* ------------------------------------------ the object machine
\* Two topology objects in one store: G, and H rebuilt from G.to_dict().
\* Construction calls go to either of them, with the arms of add_graft and
\* the root of get_grafts given as ArmType references (of either object);
\* the queries are made on G.
MaxObjs == 12
MaxObjArms == 2
MaxObjEdges == 1

ObjArmDef == FreshDef(<<Pair("A", 2)>>)
Handles(h) == IF h.H = <<>> THEN {"G"} ELSE {"G", "H"}
handle(h, who) == IF who = "G" THEN h.G ELSE h.H[1]
ArmRefs(objs) == {a \in 1..Len(objs) : objs[a].cls = "ArmType"}

\* A construction method has taken the topology object `who` to r.t.
Applied(who, op, r, val) ==
    LET objs1 == mutate(heap.objs, handle(heap, who), r.t)
    IN  /\ Len(objs1) <= MaxObjs
        /\ heap' = [heap EXCEPT !.objs = objs1]
        /\ ft' = view(objs1, heap.G)
        /\ ret' = [op |-> op, ok |-> r.ok, val |-> val]
        /\ UNCHANGED <<seg, stack>>

\* A call that changed nothing in the store.
ReadOnly(op, ok, val) ==
    /\ heap' = heap
    /\ ft' = view(heap.objs, heap.G)
    /\ ret' = [op |-> op, ok |-> ok, val |-> val]
    /\ UNCHANGED <<seg, stack>>

\* arm = X.add_armtype(arm_def); ret keeps the reference returned.
ObjAddArmtype ==
    \E who \in Handles(heap) :
        LET self == handle(heap, who)
            t == view(heap.objs, self)
            r == add_armtype(t, ObjArmDef)
            list1 == mutate(heap.objs, self, r.t)[self.arm_types].val
        IN  /\ Len(t.arm_types) < MaxObjArms
            /\ Applied(who, "add_armtype", r,
                       [on |-> who, arm |-> list1[Len(list1)]])

\* arm = X.add_chaintype(chain_def)
ObjAddChaintype ==
    \E who \in Handles(heap) :
        LET self == handle(heap, who)
            t == view(heap.objs, self)
            r == add_chaintype(t, ObjArmDef, NoName)
            list1 == mutate(heap.objs, self, r.t)[self.arm_types].val
        IN  /\ Len(t.arm_types) < MaxObjArms
            /\ Applied(who, "add_chaintype", r,
                       [on |-> who, arm |-> list1[Len(list1)]])

\* X.add_graft(base_arm, graft_arm, [0]) with the arms given by instance:
\* "u = self.arm_types.index(base_arm)", "v = self.arm_types.index(graft_arm)".
ObjAddGraft ==
    \E who \in Handles(heap), base_arm \in ArmRefs(heap.objs),
       graft_arm \in ArmRefs(heap.objs) :
        LET self == handle(heap, who)
            t == view(heap.objs, self)
            u == arm_types_index(heap.objs, self, base_arm)
            v == arm_types_index(heap.objs, self, graft_arm)
            val == [on |-> who, base_arm |-> base_arm, graft_arm |-> graft_arm,
                    u |-> u.ind, v |-> v.ind]
        IN  /\ Len(t.g.edges) < MaxObjEdges
            /\ IF ~u.ok \/ ~v.ok THEN ReadOnly("add_graft", FALSE, val)
               ELSE Applied(who, "add_graft",
                            add_graft(t, u.ind, v.ind, <<0>>, 0, 1), val)

\* X.add_path(0, [arm_def, [0]], mode=1, as_chain_name="Ch")
PathApplied(who, r) ==
    /\ Len(r.t.arm_types) <= MaxObjArms
    /\ Len(r.t.g.edges) <= MaxObjEdges
    /\ Applied(who, "add_path", r, [on |-> who])

ObjAddPath ==
    \E who \in Handles(heap) :
        PathApplied(who, add_path(view(heap.objs, handle(heap, who)),
                                  SegIndex(0),
                                  <<Branch(ObjArmDef, <<0>>, <<>>)>>,
                                  1, "Ch"))

\* H = FTSTopology.init_from_dict(G.to_dict())
ObjFromDict ==
    /\ heap.H = <<>>
    /\ LET r == heap_init_from_dict(heap.objs, heap.G)
       IN  /\ Len(r.objs) <= MaxObjs
           /\ heap' = [objs |-> r.objs, G |-> heap.G, H |-> <<r.self>>]
           /\ ft' = view(r.objs, heap.G)
    /\ ret' = [op |-> "init_from_dict", ok |-> TRUE, val |-> [on |-> "G"]]
    /\ UNCHANGED <<seg, stack>>

\* G.get_grafts(root) with the root given by instance.
ObjGetGrafts ==
    \E root \in ArmRefs(heap.objs) :
        LET i == arm_types_index(heap.objs, heap.G, root)
            r == get_grafts(view(heap.objs, heap.G), i.ind)
        IN  ReadOnly("get_grafts", i.ok /\ r.ok,
                     [on |-> "G", arm |-> root, root |-> i.ind])

\* G.fully_enumerate(): the result is built by add_path calls on the
\* target topology object and returned.  The caller keeps no reference to
\* it: the objects made during the call leave the store again.
Enumerated(r, kept) ==
    /\ heap' = [heap EXCEPT !.objs = kept]
    /\ ft' = view(kept, heap.G)
    /\ ret' = [op |-> "fully_enumerate", ok |-> r.ok,
               val |-> [on |-> "G", result |-> r.val]]
    /\ UNCHANGED <<seg, stack>>

EnumerateInto(target, r) ==
    Enumerated(r, SubSeq(IF r.ok THEN mutate(target.objs, target.self, r.val)
                         ELSE target.objs,
                         1, Len(heap.objs)))

ObjFullyEnumerate ==
    EnumerateInto(enumerate_target(heap.objs, heap.G),
                  fully_enumerate(view(heap.objs, heap.G)))

\* G.isvalid(), G.expand_to_beads(), G.expand_graft_to_beads(arm): they
\* assign to locals only.
ObjQuery ==
    \/ ReadOnly("isvalid", TRUE, [on |-> "G"])
    \/ ReadOnly("expand_to_beads", expand_to_beads(ft).ok, [on |-> "G"])
    \/ \E arm_ind \in ArmIndices(ft) :
          ReadOnly("expand_graft_to_beads",
                   expand_graft_to_beads(ft, arm_ind).ok, [on |-> "G"])

NextObjects ==
    \/ ObjAddArmtype
    \/ ObjAddChaintype
    \/ ObjAddGraft
    \/ ObjAddPath
    \/ ObjFromDict
    \/ ObjGetGrafts
    \/ ObjFullyEnumerate
    \/ ObjQuery

SpecObjects == Init /\ [][NextObjects]_vars

\* ------------------------------------------ claims on objects
\* The arm list of a topology object: the addresses of its arms by index.
ArmList(who) == heap.objs[handle(heap, who).arm_types].val

\* C21: arms are distinguished by identity: the arms of a topology are
\* distinct objects at distinct indices whatever their beads, add_armtype
\* returns the arm it has put at the last index, and add_graft / get_grafts
\* given an arm reference resolve it to the index that arm itself has in
\* the topology (and fail for an arm that is not in it), never to the
\* index of another arm with the same bead sequence.
C21_ArmsByIdentity ==
    /\ \A who \in Handles(heap) :
          \A i, j \in 1..Len(ArmList(who)) :
              i # j => ArmList(who)[i] # ArmList(who)[j]
    /\ (ret.op = "add_armtype" /\ ret.ok) =>
          /\ ArmList(ret.val.on)[Len(ArmList(ret.val.on))] = ret.val.arm
          /\ \A i \in 1..(Len(ArmList(ret.val.on)) - 1) :
                ArmList(ret.val.on)[i] # ret.val.arm
    /\ ret.op = "add_graft" =>
          /\ ret.ok <=> {ret.val.base_arm, ret.val.graft_arm}
                          \subseteq Range(ArmList(ret.val.on))
          /\ ret.ok =>
                /\ ArmList(ret.val.on)[ret.val.u + 1] = ret.val.base_arm
                /\ ArmList(ret.val.on)[ret.val.v + 1] = ret.val.graft_arm
                /\ has_edge(view(heap.objs, handle(heap, ret.val.on)).g,
                            ret.val.u, ret.val.v)
    /\ ret.op = "get_grafts" =>
          IF ret.val.arm \in Range(ArmList("G"))
          THEN ArmList("G")[ret.val.root + 1] = ret.val.arm
          ELSE ~ret.ok

\* The second of two arms with the same beads has been given to add_graft
\* as the base arm and the first as the graft arm.
C21_Witness ==
    /\ ret.op = "add_graft"
    /\ ret.ok
    /\ ret.val.u = 1
    /\ ret.val.v = 0
    /\ same_sequence(heap.objs, ret.val.base_arm, ret.val.graft_arm)

QueryOps == {"isvalid", "get_grafts", "fully_enumerate",
             "expand_graft_to_beads", "expand_to_beads"}

C28_RebuiltGraphSharesNothing ==
    [][(/\ ret'.op \in {"add_armtype", "add_chaintype", "add_graft", "add_path"}
        /\ ret'.val.on = "H") =>
        to_dict(ft') = to_dict(ft)]_vars
====
